---- MODULE Spec2Model ----
(***************************************************************************)
(* Model of the trigger-early-warning pipeline:                            *)
(*   fred_fetch.fred            -- retrying fetch of one FRED series       *)
(*   preprocess.make_dashboard_df -- resample, outer join, term spread     *)
(*   triggers.evaluate_triggers -- tiered thresholds on the latest row     *)
(*   preprocess.zscore          -- rolling z-score of a series             *)
(*   models.build_nyfed_prob    -- recession probability from the spread   *)
(*                                                                         *)
(* Numbers are exact: a cell is <<>> (NaN) or <<v>> with v an integer in   *)
(* tenths of the column's unit; derived metrics are exact fractions, and   *)
(* the exponential is a rational interval that contains its value.         *)
(* Floating-point rounding is not modelled.                                *)
(***************************************************************************)
EXTENDS Integers, Sequences, FiniteSets, TLC

VARIABLES
    bpc,      \* make_dashboard_df: "loop" | "done" | "raised"
    pos,      \* 1-based position in series_map of the current iteration
    fetched,  \* remote ids fred() was called with, in call order
    monthly,  \* monthly_dfs
    df,       \* the dataset returned by make_dashboard_df (NoDF before)
    err,      \* the exception that left make_dashboard_df
    fpc,      \* fred: "idle" | "attempt" | "diagnose" | "backoff" | "returned" | "raised"
    attempt,  \* fred's loop variable
    calls,    \* provider calls made by the current fred() call
    nfail,    \* failed attempts of the current fred() call
    slept,    \* time.sleep arguments of the current fred() call, in order
    exc,      \* the exception e caught in the current attempt
    warn,     \* the warning printed for the current failed attempt
    ret,      \* the frame fred() returned
    ferr,     \* the exception fred() raised
    tpc,      \* evaluate_triggers: "idle" | "ready" | "done"
    trig,     \* what evaluate_triggers returned or raised
    ppc,      \* build_nyfed_prob: "idle" | "ready" | "done"
    prob,     \* what build_nyfed_prob returned or raised
    zpc,      \* zscore: "idle" | "ready" | "done"
    zin,      \* zscore's arguments: the series and the window
    zout      \* the series zscore returned

buildVars == <<bpc, pos, fetched, monthly, err>>

fredVars == <<fpc, attempt, calls, nfail, slept, exc, warn, ret, ferr>>

trigVars == <<tpc, trig>>

probVars == <<ppc, prob>>

zVars == <<zpc, zin, zout>>

vars == <<buildVars, fredVars, df, trigVars, probVars, zVars>>

(***************************************************************************)
(* Cells and frames                                                        *)
(***************************************************************************)
NaN == <<>>

Num(v) == <<v>>

IsNaN(c) == c = NaN

Val(c) == c[1]

\* a raw observation: timestamp (month m, day d in the month) and a cell
Obs(m, d, c) == [m |-> m, d |-> d, v |-> c]

\* a frame: its rows and its column labels (df.columns)
NoDF == [kind |-> "none", rows |-> <<>>, cols |-> {}]

NoErr == [kind |-> "none", series |-> ""]

NoTrig == [kind |-> "none"]

NoProb == [kind |-> "none", error |-> "", rows |-> <<>>]

NoZIn == [series |-> <<>>, window |-> 0]

\* DataFrame.dropna() on a single-column frame
RECURSIVE DropNa(_)
DropNa(frame) ==
    IF frame = <<>> THEN <<>>
    ELSE IF IsNaN(Head(frame).v) THEN DropNa(Tail(frame))
         ELSE <<Head(frame)>> \o DropNa(Tail(frame))

(***************************************************************************)
(* fred_fetch.fred                                                         *)
(***************************************************************************)
MaxAttempts == 3

\* frames the simulated provider can answer with
FrameAllNaN == << Obs(0, 0, NaN) >>

FrameGap == << Obs(0, 0, Num(40)), Obs(0, 1, Num(46)), Obs(2, 0, Num(43)) >>

FrameLate ==
    << Obs(1, 0, Num(41)), Obs(1, 1, NaN), Obs(2, 0, Num(45)), Obs(3, 0, Num(44)) >>

ProviderFrames == {FrameAllNaN, FrameGap, FrameLate}

\* what web.DataReader can do: raise, return None, return an empty or non-empty frame
ProviderOutcomes ==
    {[kind |-> "raise", rows |-> <<>>], [kind |-> "none", rows |-> <<>>],
     [kind |-> "frame", rows |-> <<>>]}
    \cup {[kind |-> "frame", rows |-> f] : f \in ProviderFrames}

\* what session.get(url) can do: answer text/html, answer something else, raise
DiagOutcomes == {"html", "other", "raise"}

\* if df is None or df.empty
IsEmptyResponse(o) == o.kind = "none" \/ (o.kind = "frame" /\ o.rows = <<>>)

AttemptFails(o) == o.kind = "raise" \/ IsEmptyResponse(o)

CaughtException(o) == IF o.kind = "raise" THEN "provider error" ELSE "Empty response"

\* the result of a successful attempt: return df.dropna()
FetchResult(o) == DropNa(o.rows)

\* the warning printed by the except block
Warning(d) ==
    CASE d = "html" -> "HTML error page"
      [] d = "other" -> "fetch failed"
      [] OTHER -> "network error"

RECURSIVE Pow2(_)
Pow2(n) == IF n = 0 THEN 1 ELSE 2 * Pow2(n - 1)

\* mutant: the exponent is the attempt number
BackoffWaitLate(a) == Pow2(a)

\* wait = 2 ** (attempt - 1)
BackoffWait(a) == Pow2(a - 1)

\* mutant: the loop bound is off by one
MayRetryOffByOne(a) == a <= MaxAttempts

\* if attempt < 3: sleep and retry, else raise
MayRetry(a) == a < MaxAttempts

Exhausted(series) == [kind |-> "exhausted", series |-> series]

(***************************************************************************)
(* preprocess.make_dashboard_df : series_map                               *)
(***************************************************************************)
SeriesMap ==
    << [id |-> "DGS2",         col |-> "DGS2"],
       [id |-> "DTB3",         col |-> "DTB3"],
       [id |-> "BAMLH0A0HYM2", col |-> "HY_OAS"],
       [id |-> "TEMPHELPS",    col |-> "TEMP"],
       [id |-> "DRCCLACBS",    col |-> "DELINQ"],
       [id |-> "UNRATE",       col |-> "UNRATE"],
       [id |-> "USREC",        col |-> "USREC"],
       [id |-> "DGS10",        col |-> "DGS10"] >>

NSeries == Len(SeriesMap)

ColNames == [i \in 1..NSeries |-> SeriesMap[i].col]

FfillCols == {"DELINQ", "USREC"}

(***************************************************************************)
(* preprocess.make_dashboard_df : resample, forward fill, outer join       *)
(***************************************************************************)
SetMin(S) == CHOOSE x \in S : \A y \in S : x <= y

SetMax(S) == CHOOSE x \in S : \A y \in S : x >= y

RECURSIVE SortedSeq(_)
SortedSeq(S) ==
    IF S = {} THEN <<>> ELSE <<SetMin(S)>> \o SortedSeq(S \ {SetMin(S)})

FrameMonths(frame) == {frame[i].m : i \in DOMAIN frame}

\* the last non-missing value observed in month m, in row order; NaN if none
LastInMonth(frame, m) ==
    LET hits == {i \in DOMAIN frame : frame[i].m = m /\ ~IsNaN(frame[i].v)}
    IN IF hits = {} THEN NaN ELSE frame[SetMax(hits)].v

\* s.resample("ME").last(): one row per month from the first to the last
\* observed month, empty months included
Resample(frame) ==
    IF frame = <<>> THEN <<>>
    ELSE LET lo == SetMin(FrameMonths(frame))
             hi == SetMax(FrameMonths(frame))
         IN [k \in 1..(hi - lo + 1) |->
                [m |-> lo + k - 1, v |-> LastInMonth(frame, lo + k - 1)]]

\* .ffill(): a missing cell takes the nearest earlier non-missing cell of the
\* same frame, if there is one
Ffill(mf) ==
    [k \in DOMAIN mf |->
        LET known == {j \in 1..k : ~IsNaN(mf[j].v)}
        IN [m |-> mf[k].m,
            v |-> IF known = {} THEN NaN ELSE mf[SetMax(known)].v]]

\* the three branches of the loop body
MonthEnd(col, frame) ==
    CASE col = "DELINQ" -> Ffill(Resample(frame))
      [] col = "USREC"  -> Ffill(Resample(frame))
      [] OTHER          -> Resample(frame)

MonthlyMonths(mf) == {mf[k].m : k \in DOMAIN mf}

CellAt(mf, m) ==
    LET hits == {k \in DOMAIN mf : mf[k].m = m}
    IN IF hits = {} THEN NaN ELSE mf[CHOOSE k \in hits : TRUE].v

\* mutant: join="inner"
JoinIndexInner(dfs) ==
    SortedSeq({m \in UNION {MonthlyMonths(dfs[i]) : i \in DOMAIN dfs} :
                 \A i \in DOMAIN dfs : m \in MonthlyMonths(dfs[i])})

\* the row labels of pd.concat(monthly_dfs, axis=1, join="outer").sort_index()
JoinIndex(dfs) == SortedSeq(UNION {MonthlyMonths(dfs[i]) : i \in DOMAIN dfs})

Concat(dfs) ==
    LET idx == JoinIndex(dfs)
    IN [k \in DOMAIN idx |->
            [m |-> idx[k],
             c |-> [i \in DOMAIN dfs |-> CellAt(dfs[i], idx[k])]]]

\* elementwise float subtraction: missing if either operand is missing
Sub(a, b) == IF IsNaN(a) \/ IsNaN(b) THEN NaN ELSE Num(Val(a) - Val(b))

ColPos(col) == CHOOSE i \in 1..NSeries : ColNames[i] = col

Columns == {ColNames[i] : i \in 1..NSeries} \cup {"term_spread"}

\* mutant: the spread of the probability model (10Y - 3M) is taken instead
TermSpreadTenYear(joined) ==
    Sub(joined.c[ColPos("DGS10")], joined.c[ColPos("DTB3")])

\* df["term_spread"] = df["DGS2"] - df["DTB3"]
TermSpread(joined) == Sub(joined.c[ColPos("DGS2")], joined.c[ColPos("DTB3")])

\* the table make_dashboard_df returns, from the list monthly_dfs
BuildFrame(dfs) ==
    LET j == Concat(dfs)
    IN [k \in DOMAIN j |->
            [m |-> j[k].m,
             c |-> [col \in Columns |->
                      IF col = "term_spread" THEN TermSpread(j[k])
                      ELSE j[k].c[ColPos(col)]]]]

(***************************************************************************)
(* Actions: make_dashboard_df calling fred for each entry of series_map    *)
(***************************************************************************)
InitFetch ==
    /\ bpc = "loop" /\ pos = 1 /\ fetched = <<>> /\ monthly = <<>>
    /\ df = NoDF /\ err = NoErr
    /\ fpc = "idle" /\ attempt = 0 /\ calls = 0 /\ nfail = 0 /\ slept = <<>>
    /\ exc = "" /\ warn = "" /\ ret = <<>> /\ ferr = NoErr
    /\ tpc = "idle" /\ trig = NoTrig
    /\ ppc = "idle" /\ prob = NoProb
    /\ zpc = "idle" /\ zin = NoZIn /\ zout = <<>>

\* s = fred(fred_series, start=start): enter fred, for attempt in range(1, 4)
CallFred ==
    /\ bpc = "loop" /\ fpc = "idle" /\ pos <= NSeries
    /\ fetched' = Append(fetched, SeriesMap[pos].id)
    /\ fpc' = "attempt" /\ attempt' = 1 /\ calls' = 0 /\ nfail' = 0
    /\ slept' = <<>> /\ exc' = "" /\ warn' = "" /\ ret' = <<>> /\ ferr' = NoErr
    /\ UNCHANGED <<bpc, pos, monthly, df, err>>
    /\ UNCHANGED <<trigVars, probVars, zVars>>

\* the try block of one attempt
Attempt(o) ==
    /\ fpc = "attempt"
    /\ calls' = calls + 1
    /\ IF AttemptFails(o)
       THEN /\ fpc' = "diagnose" /\ nfail' = nfail + 1
            /\ exc' = CaughtException(o) /\ ret' = ret
       ELSE /\ fpc' = "returned" /\ ret' = FetchResult(o)
            /\ UNCHANGED <<nfail, exc>>
    /\ UNCHANGED <<bpc, pos, fetched, monthly, df, err, attempt, slept, warn, ferr>>
    /\ UNCHANGED <<trigVars, probVars, zVars>>

\* mutant: the inner except is missing, a failed diagnostic request escapes
DiagnoseEscapes(d) ==
    /\ fpc = "diagnose"
    /\ IF d = "raise"
       THEN /\ fpc' = "raised" /\ ferr' = [kind |-> "diagnostic", series |-> SeriesMap[pos].id]
            /\ warn' = warn
       ELSE /\ fpc' = "backoff" /\ warn' = Warning(d) /\ ferr' = ferr
    /\ UNCHANGED <<bpc, pos, fetched, monthly, df, err, attempt, calls, nfail,
                   slept, exc, ret>>
    /\ UNCHANGED <<trigVars, probVars, zVars>>

\* the inner try/except of the except block
Diagnose(d) ==
    /\ fpc = "diagnose"
    /\ warn' = Warning(d)
    /\ fpc' = "backoff"
    /\ UNCHANGED <<bpc, pos, fetched, monthly, df, err, attempt, calls, nfail,
                   slept, exc, ret, ferr>>
    /\ UNCHANGED <<trigVars, probVars, zVars>>

\* if attempt < 3: time.sleep(wait), next iteration
Retry ==
    /\ fpc = "backoff" /\ MayRetry(attempt)
    /\ slept' = Append(slept, BackoffWait(attempt))
    /\ attempt' = attempt + 1
    /\ fpc' = "attempt" /\ exc' = "" /\ warn' = ""
    /\ UNCHANGED <<bpc, pos, fetched, monthly, df, err, calls, nfail, ret, ferr>>
    /\ UNCHANGED <<trigVars, probVars, zVars>>

\* else: raise RuntimeError
GiveUp ==
    /\ fpc = "backoff" /\ ~MayRetry(attempt)
    /\ fpc' = "raised"
    /\ ferr' = Exhausted(SeriesMap[pos].id)
    /\ UNCHANGED <<bpc, pos, fetched, monthly, df, err, attempt, calls, nfail,
                   slept, exc, warn, ret>>
    /\ UNCHANGED <<trigVars, probVars, zVars>>

\* the rest of the loop body after fred returned (fred's locals are gone)
LoopBody ==
    /\ bpc = "loop" /\ fpc = "returned"
    /\ monthly' = Append(monthly, MonthEnd(SeriesMap[pos].col, ret))
    /\ pos' = pos + 1
    /\ fpc' = "idle" /\ attempt' = 0 /\ calls' = 0 /\ nfail' = 0
    /\ slept' = <<>> /\ exc' = "" /\ warn' = "" /\ ret' = <<>>
    /\ UNCHANGED <<bpc, fetched, df, err, ferr>>
    /\ UNCHANGED <<trigVars, probVars, zVars>>

\* mutant: the loop catches the error and goes on with the next series
PropagateSwallowed ==
    /\ bpc = "loop" /\ fpc = "raised"
    /\ monthly' = Append(monthly, <<>>)
    /\ pos' = pos + 1
    /\ fpc' = "idle" /\ attempt' = 0 /\ calls' = 0 /\ nfail' = 0
    /\ slept' = <<>> /\ exc' = "" /\ warn' = "" /\ ret' = <<>>
    /\ UNCHANGED <<bpc, fetched, df, err, ferr>>
    /\ UNCHANGED <<trigVars, probVars, zVars>>

\* fred raised: nothing in make_dashboard_df catches it
Propagate ==
    /\ bpc = "loop" /\ fpc = "raised"
    /\ bpc' = "raised"
    /\ err' = ferr
    /\ UNCHANGED <<pos, fetched, monthly, df, fpc, attempt, calls, nfail, slept,
                   exc, warn, ret, ferr>>
    /\ UNCHANGED <<trigVars, probVars, zVars>>

\* after the loop: concat, sort_index, term_spread, return df
Join ==
    /\ bpc = "loop" /\ fpc = "idle" /\ pos = NSeries + 1
    /\ df' = [kind |-> "df", rows |-> BuildFrame(monthly), cols |-> Columns]
    /\ bpc' = "done"
    /\ UNCHANGED <<pos, fetched, monthly, err, fpc, attempt, calls, nfail, slept,
                   exc, warn, ret, ferr>>
    /\ UNCHANGED <<trigVars, probVars, zVars>>

NextFetch ==
    \/ CallFred
    \/ \E o \in ProviderOutcomes : Attempt(o)
    \/ \E d \in DiagOutcomes : Diagnose(d)
    \/ Retry
    \/ GiveUp
    \/ LoopBody
    \/ Propagate
    \/ Join

SpecFetch == InitFetch /\ [][NextFetch]_vars

(***************************************************************************)
(* Claims about fred                                                       *)
(***************************************************************************)
RECURSIVE SeqSum(_)
SeqSum(q) == IF q = <<>> THEN 0 ELSE Head(q) + SeqSum(Tail(q))

CurrentSeries == SeriesMap[pos].id

\* C1: in one call of fred the provider is called at most 3 times; the call
\* raises the "failed after 3 attempts" error, naming the series, exactly when
\* all 3 attempts failed (a call that returned had fewer than 3 failures, a
\* call whose third attempt failed can only raise), and the error comes after
\* exactly 3 provider calls.
C1_AtMostThreeCalls ==
    /\ calls <= 3
    /\ fpc = "raised" => /\ ferr = [kind |-> "exhausted", series |-> CurrentSeries]
                         /\ nfail = 3 /\ calls = 3
    /\ fpc = "returned" => nfail < 3 /\ nfail = calls - 1 /\ ferr.kind = "none"
    /\ (fpc = "backoff" /\ nfail = 3) => (ENABLED GiveUp /\ ~ENABLED Retry)
    /\ nfail = 3 => fpc \in {"diagnose", "backoff", "raised"}

C1_Witness == fpc = "raised" /\ calls = 3 /\ nfail = 3 /\ ferr.kind = "exhausted"

\* C2: fred sleeps 1 second after failed attempt 1 and 2 seconds after failed
\* attempt 2, always before the next provider call, and never after failed
\* attempt 3; a call that fails twice and then succeeds returns the provider's
\* rows and has slept 1 + 2 = 3 seconds in all.
C2_BackoffSchedule ==
    /\ Len(slept) <= 2
    /\ \A i \in DOMAIN slept : slept[i] = i
    /\ fpc = "attempt" => Len(slept) = attempt - 1 /\ Len(slept) = nfail
    /\ fpc = "raised" => slept = <<1, 2>>
    /\ (fpc = "returned" /\ nfail = 2) =>
          /\ SeqSum(slept) = 3
          /\ ret \in {DropNa(f) : f \in ProviderFrames}

C2_Witness == fpc = "returned" /\ nfail = 2 /\ calls = 3 /\ slept = <<1, 2>> /\ ret # <<>>

\* C3: every series fred returns has at least one row.
C3_NeverReturnsEmpty == fpc = "returned" => ret # <<>>

\* C4: whatever the diagnostic request does (HTML page, other response, raises),
\* the step after it is the same: sleep 2^(attempt-1) and retry when
\* attempt < 3, raise the exhausted error when attempt = 3; the diagnostic
\* changes nothing but the warning, and no error other than the exhausted error
\* ever leaves fred.
C4_DiagnosticNeverChangesFlow ==
    [][ /\ fpc = "diagnose" =>
              /\ fpc' = "backoff"
              /\ <<attempt, calls, nfail, slept, ret, ferr, err, bpc>>' =
                 <<attempt, calls, nfail, slept, ret, ferr, err, bpc>>
        /\ (fpc = "backoff" /\ attempt < 3) =>
              /\ fpc' = "attempt" /\ attempt' = attempt + 1
              /\ slept' = Append(slept, IF attempt = 1 THEN 1 ELSE 2)
              /\ ferr' = ferr
        /\ (fpc = "backoff" /\ attempt = 3) =>
              /\ fpc' = "raised"
              /\ ferr' = [kind |-> "exhausted", series |-> CurrentSeries]
        /\ ferr'.kind \in {"none", "exhausted"}
        /\ err'.kind \in {"none", "exhausted"}
      ]_vars

C4_Witness ==
    /\ fpc = "raised" /\ warn = "network error" /\ ferr.kind = "exhausted"

(***************************************************************************)
(* Claims about make_dashboard_df                                          *)
(***************************************************************************)
MapIds(n) == [i \in 1..n |-> SeriesMap[i].id]

\* C5: the series are fetched one after another in series_map order; when a
\* fetch raises the exhausted error, that error leaves make_dashboard_df, no
\* dataset is returned, no later series is fetched, and nothing else happens.
C5_ExhaustionAbortsBuild ==
    [][ /\ bpc # "raised"
        /\ fetched' = MapIds(Len(fetched'))
        /\ fpc' # "idle" => Len(fetched') = pos'
        /\ (fpc = "raised" /\ bpc = "loop") =>
              /\ bpc' = "raised" /\ err' = ferr /\ fetched' = fetched
        /\ bpc' = "raised" =>
              /\ err' = [kind |-> "exhausted", series |-> SeriesMap[pos'].id]
              /\ df' = NoDF
              /\ fetched' = MapIds(pos')
        /\ df'.kind = "df" => bpc' = "done" /\ fetched' = MapIds(NSeries)
      ]_vars

C5_Witness ==
    /\ bpc = "raised" /\ pos = 3 /\ fetched = MapIds(3)
    /\ err = [kind |-> "exhausted", series |-> "BAMLH0A0HYM2"] /\ df = NoDF

RowMonths == {df.rows[k].m : k \in DOMAIN df.rows}

\* C6: the row index of the returned dataset is strictly increasing (hence
\* sorted and duplicate-free) and is the union of the months of the resampled
\* input series; every cell of every resampled series is found at its month's
\* row, so a month only one series has data for is a row all the same.
C6_IndexIsSortedUnion ==
    df.kind = "df" =>
        /\ \A k \in 1..(Len(df.rows) - 1) : df.rows[k].m < df.rows[k + 1].m
        /\ RowMonths = UNION {MonthlyMonths(monthly[i]) : i \in DOMAIN monthly}
        /\ \A i \in DOMAIN monthly : \A j \in DOMAIN monthly[i] :
              \E k \in DOMAIN df.rows :
                 /\ df.rows[k].m = monthly[i][j].m
                 /\ df.rows[k].c[ColNames[i]] = monthly[i][j].v

C6_Witness ==
    /\ df.kind = "df"
    /\ \E k \in DOMAIN df.rows :
          /\ Cardinality({i \in DOMAIN monthly :
                             df.rows[k].m \in MonthlyMonths(monthly[i])}) = 1
          /\ ~IsNaN(df.rows[k].c["UNRATE"])
          /\ IsNaN(df.rows[k].c["DGS2"])

\* C7: in the returned dataset a forward-fill column (DELINQ, USREC) has no
\* missing value at any row from the row of its first observation to the last
\* row of the index.
C7_FfillReachesEndOfIndex ==
    df.kind = "df" =>
        \A col \in FfillCols :
            LET seen == {k \in DOMAIN df.rows : ~IsNaN(df.rows[k].c[col])}
            IN seen # {} =>
                 \A k \in DOMAIN df.rows :
                     k >= SetMin(seen) => ~IsNaN(df.rows[k].c[col])

\* C8: at every row term_spread is DGS2 minus DTB3 of that row, and it is
\* missing exactly when DGS2 or DTB3 is missing there; building the dataset
\* fetched the eight series of series_map and nothing else.
C8_TermSpreadIsRowDifference ==
    df.kind = "df" =>
        /\ \A k \in DOMAIN df.rows :
              LET r == df.rows[k].c
              IN /\ IsNaN(r["term_spread"]) <=> (IsNaN(r["DGS2"]) \/ IsNaN(r["DTB3"]))
                 /\ ~IsNaN(r["term_spread"]) =>
                       r["term_spread"][1] = r["DGS2"][1] - r["DTB3"][1]
        /\ fetched = MapIds(NSeries)
        /\ \A i \in DOMAIN fetched : fetched[i] # "term_spread"

C8_Witness ==
    /\ df.kind = "df"
    /\ \E k \in DOMAIN df.rows :
          df.rows[k].c["DGS2"] = <<43>> /\ df.rows[k].c["DTB3"] = <<45>>
             /\ df.rows[k].c["term_spread"] = <<-2>>
    /\ \E k \in DOMAIN df.rows :
          ~IsNaN(df.rows[k].c["DGS2"]) /\ IsNaN(df.rows[k].c["DTB3"])
             /\ IsNaN(df.rows[k].c["term_spread"])

(***************************************************************************)
(* preprocess.zscore and triggers.evaluate_triggers                        *)
(*                                                                         *)
(* A cell <<v>> of a rate column is v tenths of a percent; a metric is an  *)
(* exact fraction n/d (d > 0).                                             *)
(***************************************************************************)
Frac(n, d) == [n |-> n, d |-> d]

\* x <= y and x >= y on fractions with positive denominators
FracLe(x, y) == x.n * y.d <= y.n * x.d

FracGe(x, y) == x.n * y.d >= y.n * x.d

Required == {"UNRATE", "HY_OAS", "TEMP", "DELINQ", "term_spread"}

\* df.dropna() without the subset: a row missing any column is dropped
QualifiesEveryColumn(row) == \A col \in DOMAIN row.c : ~IsNaN(row.c[col])

\* df.dropna(subset=required)
Qualifies(row) == \A col \in Required : ~IsNaN(row.c[col])

DropNaRequired(rows) == SelectSeq(rows, Qualifies)

MinHistory == 13

\* mutant: the test is len(df_trig) <= 13
TooShortInclusive(n) == n <= MinHistory

\* if len(df_trig) < 13: raise ValueError
TooShort(n) == n < MinHistory

\* df_trig[col] as a sequence of numbers (no cell of it is missing)
Series(rows, col) == [k \in DOMAIN rows |-> Val(rows[k].c[col])]

\* s.iloc[-k]
ILocBack(q, k) == q[Len(q) - k + 1]

\* s.iloc[-k:]
LastK(q, k) ==
    IF Len(q) <= k THEN q ELSE SubSeq(q, Len(q) - k + 1, Len(q))

SeqTotal(q) ==
    LET RECURSIVE Go(_)
        Go(k) == IF k = 0 THEN 0 ELSE q[k] + Go(k - 1)
    IN Go(Len(q))

SeqMinimum(q) == SetMin({q[k] : k \in DOMAIN q})

ZWindow == 60

ZNaN == [nan |-> TRUE, num |-> 0, var |-> 0, w |-> 1]

\* the rolling window with min_periods=2: a shorter series is scored over
\* the values it has
ZScoreLastPartial(q, w) ==
    LET n == IF Len(q) < w THEN Len(q) ELSE w
        win == LastK(q, n)
        S == SeqTotal(win)
        Q == SeqTotal([k \in DOMAIN win |-> win[k] * win[k]])
        x == win[n]
    IN IF n < 2 \/ n * Q - S * S = 0 THEN ZNaN
       ELSE [nan |-> FALSE, num |-> n * x - S, var |-> n * Q - S * S, w |-> n]

\* zscore(series, window) at the last position of a series without missing
\* cells: (x - mean) / std over the last `window` values, std with ddof = 1.
\* With S the sum and Q the sum of squares of the window,
\*   x - mean = (w x - S) / w   and   std^2 = (w Q - S^2) / (w (w - 1)).
\* The value kept is num = w x - S and var = w Q - S^2; it is missing when the
\* series is shorter than the window or the deviation is 0 (0 / 0).
ZScoreLast(q, w) ==
    IF Len(q) < w THEN ZNaN
    ELSE LET win == LastK(q, w)
             S == SeqTotal(win)
             Q == SeqTotal([k \in DOMAIN win |-> win[k] * win[k]])
             x == win[w]
         IN IF w * Q - S * S = 0 THEN ZNaN
            ELSE [nan |-> FALSE, num |-> w * x - S, var |-> w * Q - S * S, w |-> w]

\* z >= c for a fraction c > 0; False when z is missing
ZGe(z, c) ==
    /\ ~z.nan
    /\ z.num > 0
    /\ c.d * c.d * z.num * z.num * (z.w - 1) >= c.n * c.n * z.w * z.var

\* ---- Term Spread (2Y - 3M) ----
TsState(x) ==
    IF FracLe(x, Frac(0, 1)) THEN "Danger"
    ELSE IF FracLe(x, Frac(1, 2)) THEN "Watch"
    ELSE "Normal"

\* mutant: the Watch breakpoint is exclusive
HyStateStrict(x) ==
    IF FracGe(x, Frac(6, 1)) THEN "Danger"
    ELSE IF ~FracLe(x, Frac(9, 2)) THEN "Watch"
    ELSE "Normal"

\* ---- HY OAS ----
HyState(x) ==
    IF FracGe(x, Frac(6, 1)) THEN "Danger"
    ELSE IF FracGe(x, Frac(9, 2)) THEN "Watch"
    ELSE "Normal"

TempLag == 13

\* temp_yoy = (temp.iloc[-1] / temp.iloc[-13] - 1) * 100, for temp.iloc[-13] > 0
TempYoY(temp) ==
    Frac(100 * (ILocBack(temp, 1) - ILocBack(temp, TempLag)),
         ILocBack(temp, TempLag))

\* ---- Temp Help YoY ----
TempState(x) ==
    IF FracLe(x, Frac(-6, 1)) THEN "Danger"
    ELSE IF FracLe(x, Frac(-3, 1)) THEN "Watch"
    ELSE "Normal"

SahmLowWindow == 12

SahmMeanWindow == 3

\* gap = un.rolling(3).mean().iloc[-1] - un.iloc[-12:].min(), in percent
\* the gap taken from the 12-month high instead of the low
SahmGapFromHigh(un) ==
    Frac(SeqTotal(LastK(un, SahmMeanWindow))
            - SahmMeanWindow * SetMax({LastK(un, SahmLowWindow)[k] :
                                         k \in DOMAIN LastK(un, SahmLowWindow)}),
         SahmMeanWindow * 10)

SahmGap(un) ==
    Frac(SeqTotal(LastK(un, SahmMeanWindow))
            - SahmMeanWindow * SeqMinimum(LastK(un, SahmLowWindow)),
         SahmMeanWindow * 10)

\* ---- Unemployment (Sahm Rule) ----
SahmState(gap) ==
    IF FracGe(gap, Frac(2, 5)) THEN "Danger"
    ELSE IF FracGe(gap, Frac(1, 5)) THEN "Watch"
    ELSE "Normal"

\* ---- Credit Card Delinquencies (z-score) ----
DelinqState(z) ==
    IF ZGe(z, Frac(1, 1)) THEN "Danger"
    ELSE IF ZGe(z, Frac(1, 2)) THEN "Watch"
    ELSE "Normal"

TriggerNames ==
    {"Term Spread", "HY OAS", "Temp Help YoY", "Unemployment (Sahm)", "Card Delinq (z)"}

\* the dict evaluate_triggers returns ("detail" is the formatted metric; the
\* metric itself is kept here)
Triggers(rows) ==
    LET ts_latest == Frac(ILocBack(Series(rows, "term_spread"), 1), 10)
        hy_latest == Frac(ILocBack(Series(rows, "HY_OAS"), 1), 10)
        temp_yoy  == TempYoY(Series(rows, "TEMP"))
        gap       == SahmGap(Series(rows, "UNRATE"))
        d_z       == ZScoreLast(Series(rows, "DELINQ"), ZWindow)
    IN [name \in TriggerNames |->
          CASE name = "Term Spread" -> [state |-> TsState(ts_latest), metric |-> ts_latest]
            [] name = "HY OAS" -> [state |-> HyState(hy_latest), metric |-> hy_latest]
            [] name = "Temp Help YoY" -> [state |-> TempState(temp_yoy), metric |-> temp_yoy]
            [] name = "Unemployment (Sahm)" -> [state |-> SahmState(gap), metric |-> gap]
            [] OTHER -> [state |-> DelinqState(d_z), metric |-> d_z]]

(***************************************************************************)
(* Datasets evaluate_triggers is applied to: n rows of a fixed history     *)
(* followed by a few rows drawn from RowKinds.                             *)
(***************************************************************************)
MaxPad == 59

MaxTail == 2

\* a row of the dataset as make_dashboard_df builds it
MkRow(m, un, hy, temp, delinq, dgs2, dtb3, dgs10) ==
    [m |-> m,
     c |-> [col \in Columns |->
              CASE col = "UNRATE" -> un
                [] col = "HY_OAS" -> hy
                [] col = "TEMP" -> temp
                [] col = "DELINQ" -> delinq
                [] col = "DGS2" -> dgs2
                [] col = "DTB3" -> dtb3
                [] col = "DGS10" -> dgs10
                [] col = "USREC" -> Num(0)
                [] OTHER -> Sub(dgs2, dtb3)]]

\* delinquency rate of the history: 0.0, 0.2, 0.2, then 0.5 and 0.1 in turn
HistoryDelinq(i) ==
    CASE i = 1 -> 0
      [] i \in {2, 3} -> 2
      [] OTHER -> IF i % 2 = 0 THEN 5 ELSE 1

HistoryRow(i) ==
    MkRow(i, Num(40), Num(40), Num(100), Num(HistoryDelinq(i)),
          Num(30), Num(20), Num(35))

\* the rows that may follow the history: five rows that put the trigger columns
\* beyond, on and between their breakpoints, and three rows with a missing cell
RowKinds == {"S1", "S2", "S3", "S4", "S5", "NoUnrate", "NoDtb3", "NoDgs10"}

KindRow(kind, m) ==
    CASE kind = "S1" -> MkRow(m, Num(46), Num(60), Num(95), Num(5), Num(40), Num(46), Num(35))
      [] kind = "S2" -> MkRow(m, Num(46), Num(59), Num(97), Num(4), Num(20), Num(20), Num(35))
      [] kind = "S3" -> MkRow(m, Num(45), Num(45), Num(98), Num(4), Num(21), Num(20), Num(35))
      [] kind = "S4" -> MkRow(m, Num(40), Num(44), Num(93), Num(1), Num(25), Num(20), Num(35))
      [] kind = "S5" -> MkRow(m, Num(40), Num(61), Num(94), Num(5), Num(26), Num(20), Num(35))
      [] kind = "NoUnrate" -> MkRow(m, NaN, Num(61), Num(93), Num(9), Num(19), Num(20), Num(35))
      [] kind = "NoDtb3" -> MkRow(m, Num(52), Num(61), Num(93), Num(9), Num(19), NaN, Num(35))
      [] OTHER -> MkRow(m, Num(40), Num(40), Num(100), Num(3), Num(30), Num(20), NaN)

Tails == UNION {[1..k -> RowKinds] : k \in 0..MaxTail}

Dataset(n, tail) ==
    [k \in 1..(n + Len(tail)) |->
        IF k <= n THEN HistoryRow(k) ELSE KindRow(tail[k - n], k)]

InitTrig ==
    /\ bpc = "done" /\ pos = NSeries + 1 /\ fetched = <<>> /\ monthly = <<>>
    /\ err = NoErr
    /\ fpc = "idle" /\ attempt = 0 /\ calls = 0 /\ nfail = 0 /\ slept = <<>>
    /\ exc = "" /\ warn = "" /\ ret = <<>> /\ ferr = NoErr
    /\ \E n \in 0..MaxPad : \E tail \in Tails :
          df = [kind |-> "df", rows |-> Dataset(n, tail), cols |-> Columns]
    /\ tpc = "ready" /\ trig = NoTrig
    /\ ppc = "idle" /\ prob = NoProb
    /\ zpc = "idle" /\ zin = NoZIn /\ zout = <<>>

\* evaluate_triggers filtering df itself instead of a copy of it
EvaluateRaisesInPlace ==
    /\ tpc = "ready"
    /\ TooShort(Len(DropNaRequired(df.rows)))
    /\ trig' = [kind |-> "raise", error |-> "Not enough non-NaN history"]
    /\ tpc' = "done"
    /\ df' = [df EXCEPT !.rows = DropNaRequired(df.rows)]
    /\ UNCHANGED <<buildVars, fredVars, probVars, zVars>>

\* evaluate_triggers(df) raises ValueError
EvaluateRaises ==
    /\ tpc = "ready"
    /\ TooShort(Len(DropNaRequired(df.rows)))
    /\ trig' = [kind |-> "raise", error |-> "Not enough non-NaN history"]
    /\ tpc' = "done"
    /\ UNCHANGED <<buildVars, fredVars, df, probVars, zVars>>

\* evaluate_triggers(df) returns the triggers
EvaluateReturns ==
    /\ tpc = "ready"
    /\ ~TooShort(Len(DropNaRequired(df.rows)))
    /\ trig' = [kind |-> "ok", t |-> Triggers(DropNaRequired(df.rows))]
    /\ tpc' = "done"
    /\ UNCHANGED <<buildVars, fredVars, df, probVars, zVars>>

NextTrig == EvaluateRaises \/ EvaluateReturns

SpecTrig == InitTrig /\ [][NextTrig]_vars

(***************************************************************************)
(* Claims about evaluate_triggers                                          *)
(***************************************************************************)
QualifyingCount ==
    Cardinality({k \in DOMAIN df.rows :
                    \A col \in {"UNRATE", "HY_OAS", "TEMP", "DELINQ", "term_spread"} :
                        df.rows[k].c[col] # <<>>})

States == {"Normal", "Watch", "Danger"}

\* C9: evaluate_triggers raises the insufficient-history error exactly when
\* fewer than 13 rows of the dataset have all five required columns present;
\* otherwise (at exactly 13 rows too) it raises nothing and returns a result
\* for each of the five triggers.
C9_InsufficientHistoryBelow13 ==
    tpc = "done" =>
        /\ trig.kind = "raise" <=> QualifyingCount < 13
        /\ trig.kind # "raise" =>
              /\ trig.kind = "ok"
              /\ DOMAIN trig.t = {"Term Spread", "HY OAS", "Temp Help YoY",
                                  "Unemployment (Sahm)", "Card Delinq (z)"}
              /\ \A name \in DOMAIN trig.t : trig.t[name].state \in States

C9_Witness ==
    /\ tpc = "done" /\ trig.kind = "ok"
    /\ QualifyingCount = 13 /\ Len(df.rows) = 15

\* the state two breakpoints give a metric n/d: Danger at or beyond the danger
\* breakpoint, Watch at or beyond the watch breakpoint, Normal otherwise
TierAtOrBelow(x, dangerN, dangerD, watchN, watchD) ==
    IF x.n * dangerD <= dangerN * x.d THEN "Danger"
    ELSE IF x.n * watchD <= watchN * x.d THEN "Watch"
    ELSE "Normal"

TierAtOrAbove(x, dangerN, dangerD, watchN, watchD) ==
    IF x.n * dangerD >= dangerN * x.d THEN "Danger"
    ELSE IF x.n * watchD >= watchN * x.d THEN "Watch"
    ELSE "Normal"

\* z >= p/q for the z-score (num / w) / sqrt(var / (w (w - 1))), p/q > 0
ZAtLeast(z, p, q) ==
    ~z.nan /\ z.num > 0
       /\ q * q * z.num * z.num * (z.w - 1) >= p * p * z.w * z.var

\* C10: each trigger's state is one of Normal/Watch/Danger and is given by two
\* breakpoints on its metric, a metric on a breakpoint taking the more severe
\* state: Term Spread <= 0 Danger, <= 0.5 Watch; HY OAS >= 6.0 Danger, >= 4.5
\* Watch; Temp Help YoY <= -6 Danger, <= -3 Watch; Sahm gap >= 0.4 Danger,
\* >= 0.2 Watch; delinquency z >= 1.0 Danger, >= 0.5 Watch; Normal otherwise.
C10_TieredThresholds ==
    (tpc = "done" /\ trig.kind = "ok") =>
        LET t == trig.t
        IN /\ \A name \in DOMAIN t : t[name].state \in States
           /\ t["Term Spread"].state =
                 TierAtOrBelow(t["Term Spread"].metric, 0, 1, 1, 2)
           /\ t["HY OAS"].state =
                 TierAtOrAbove(t["HY OAS"].metric, 6, 1, 9, 2)
           /\ t["Temp Help YoY"].state =
                 TierAtOrBelow(t["Temp Help YoY"].metric, -6, 1, -3, 1)
           /\ t["Unemployment (Sahm)"].state =
                 TierAtOrAbove(t["Unemployment (Sahm)"].metric, 2, 5, 1, 5)
           /\ t["Card Delinq (z)"].state =
                 (IF ZAtLeast(t["Card Delinq (z)"].metric, 1, 1) THEN "Danger"
                  ELSE IF ZAtLeast(t["Card Delinq (z)"].metric, 1, 2) THEN "Watch"
                  ELSE "Normal")

\* a metric exactly on a breakpoint: n/d = p/q
OnBreakpoint(x, p, q) == x.n * q = p * x.d

ZOnBreakpoint(z, p, q) ==
    ~z.nan /\ z.num > 0
       /\ q * q * z.num * z.num * (z.w - 1) = p * p * z.w * z.var

C10_Witness ==
    /\ tpc = "done" /\ trig.kind = "ok"
    /\ OnBreakpoint(trig.t["Term Spread"].metric, 0, 1)
    /\ trig.t["Term Spread"].state = "Danger"
    /\ trig.t["HY OAS"].state = "Watch"
    /\ OnBreakpoint(trig.t["Temp Help YoY"].metric, -3, 1)
    /\ trig.t["Temp Help YoY"].state = "Watch"
    /\ OnBreakpoint(trig.t["Unemployment (Sahm)"].metric, 2, 5)
    /\ trig.t["Unemployment (Sahm)"].state = "Danger"
    /\ ZOnBreakpoint(trig.t["Card Delinq (z)"].metric, 1, 2)
    /\ trig.t["Card Delinq (z)"].state = "Watch"

(***************************************************************************)
(* models.build_nyfed_prob: the recession probability from the 10y-3m      *)
(* spread.  np.exp is modelled by a rational enclosure [lo, hi] that       *)
(* contains the real value: Taylor terms with outward rounding for the     *)
(* two exponentials exp(-beta0) and exp(-beta1/10), and their product      *)
(* exp(-beta0) * exp(-beta1/10)^s for a spread of s tenths.                *)
(***************************************************************************)
\* beta0 and beta1, in 1/10000
Beta0 == -5333

Beta1 == -16278

\* the argument of np.exp is -logit = (c + m * spread) / 10000
ExpArgUnnegated == [c |-> Beta0, m |-> Beta1]

ExpArg == [c |-> -Beta0, m |-> -Beta1]

\* the terms x^k / k! of the exponential series for x = xn / xd in [0, 1),
\* k = 0..last, each an enclosure in 1/100000
RECURSIVE TaylorTerms(_, _, _)
TaylorTerms(xn, xd, last) ==
    IF last = 0 THEN <<[lo |-> 100000, hi |-> 100000]>>
    ELSE LET prev == TaylorTerms(xn, xd, last - 1)
             t == prev[last]
         IN Append(prev, [lo |-> (t.lo * xn) \div (xd * last),
                          hi |-> (t.hi * xn + xd * last - 1) \div (xd * last)])

TaylorOrder == 12

\* exp(xn / xd) for |xn / xd| < 1, an enclosure in 1/100000; the terms after
\* TaylorOrder sum to less than 1/100000
ExpUnit(xn, xd) ==
    LET a == IF xn < 0 THEN -xn ELSE xn
        t == TaylorTerms(a, xd, TaylorOrder)
        Even == {k \in 1..Len(t) : k % 2 = 1}
        Odd == {k \in 1..Len(t) : k % 2 = 0}
        lows == [k \in 1..Len(t) |-> t[k].lo]
        highs == [k \in 1..Len(t) |-> t[k].hi]
        Pick(f, ks) == SeqTotal([k \in 1..Len(t) |-> IF k \in ks THEN f[k] ELSE 0])
    IN IF xn >= 0
       THEN [lo |-> SeqTotal(lows), hi |-> SeqTotal(highs) + 1]
       ELSE [lo |-> Pick(lows, Even) - Pick(highs, Odd) - 1,
             hi |-> Pick(highs, Even) - Pick(lows, Odd) + 1]

\* an enclosure in 1/100000 widened to one in 1/10000
Coarse(e) == [lo |-> e.lo \div 10, hi |-> (e.hi + 9) \div 10]

\* the product of two non-negative enclosures in 1/10000, without leaving
\* 32 bits: a * b / 10000 from the quotients and remainders by 10000
MulEnc(a, b) ==
    LET Mul(x, y, up) ==
            (x \div 10000) * (y \div 10000) * 10000
              + (x \div 10000) * (y % 10000)
              + (x % 10000) * (y \div 10000)
              + ((x % 10000) * (y % 10000) + up) \div 10000
    IN [lo |-> Mul(a.lo, b.lo, 0), hi |-> Mul(a.hi, b.hi, 9999)]

\* step^n by repeated squaring
RECURSIVE PowEnc(_, _)
PowEnc(step, n) ==
    IF n = 0 THEN [lo |-> 10000, hi |-> 10000]
    ELSE LET half == PowEnc(step, n \div 2)
             sq == MulEnc(half, half)
         IN IF n % 2 = 1 THEN MulEnc(sq, step) ELSE sq

\* np.exp(-logit) at a spread of s tenths, an enclosure in 1/10000
ExpNegLogit(s) ==
    LET base == Coarse(ExpUnit(ExpArg.c, 10000))
    IN IF s >= 0
       THEN MulEnc(base, PowEnc(Coarse(ExpUnit(ExpArg.m, 100000)), s))
       ELSE MulEnc(base, PowEnc(Coarse(ExpUnit(-ExpArg.m, 100000)), -s))

\* prob * 100 = 100 / (1 + np.exp(-logit)), an enclosure in 1/100 of a
\* percentage point
ProbPercent(s) ==
    LET e == ExpNegLogit(s)
    IN [lo |-> 100000000 \div (10000 + e.hi),
        hi |-> (100000000 + 10000 + e.lo - 1) \div (10000 + e.lo)]

\* the membership test on df.columns
MissingInputsBoth(cols) == "DGS10" \notin cols /\ "DTB3" \notin cols

MissingInputs(cols) == "DGS10" \notin cols \/ "DTB3" \notin cols

\* out: one row per row of df, under df's index
NyFedTableDropNa(rows) ==
    LET kept == SelectSeq(rows, LAMBDA r :
                    ~IsNaN(Sub(r.c["DGS10"], r.c["DTB3"])))
    IN [k \in 1..Len(kept) |->
          [m |-> kept[k].m,
           p |-> Num(ProbPercent(Val(Sub(kept[k].c["DGS10"], kept[k].c["DTB3"]))))]]

NyFedTable(rows) ==
    [k \in 1..Len(rows) |->
        LET spread == Sub(rows[k].c["DGS10"], rows[k].c["DTB3"])
        IN [m |-> rows[k].m,
            p |-> IF IsNaN(spread) THEN NaN ELSE Num(ProbPercent(Val(spread)))]]

\* build_nyfed_prob(df) raises ValueError
ProbRaises ==
    /\ ppc = "ready"
    /\ MissingInputs(df.cols)
    /\ prob' = [kind |-> "raise", error |-> "DGS10 or DTB3 missing", rows |-> <<>>]
    /\ ppc' = "done"
    /\ UNCHANGED <<buildVars, fredVars, df, trigVars, zVars>>

\* build_nyfed_prob(df) passes the test; df["DGS10"] and df["DTB3"] raise
\* KeyError for a label that is not a column
ProbReturns ==
    /\ ppc = "ready"
    /\ ~MissingInputs(df.cols)
    /\ prob' = IF {"DGS10", "DTB3"} \subseteq df.cols
               THEN [kind |-> "ok", error |-> "", rows |-> NyFedTable(df.rows)]
               ELSE [kind |-> "raise", error |-> "KeyError", rows |-> <<>>]
    /\ ppc' = "done"
    /\ UNCHANGED <<buildVars, fredVars, df, trigVars, zVars>>

\* input frames of build_nyfed_prob: up to MaxProbRows rows with chosen
\* DGS10 and DTB3 cells, with or without the two columns
MaxProbRows == 2

ProbCells == {NaN, Num(20), Num(35), Num(60)}

ProbRowSeqs ==
    UNION {[1..k -> ProbCells \X ProbCells] : k \in 0..MaxProbRows}

Restrict(rows, cols) ==
    [k \in 1..Len(rows) |->
        [m |-> rows[k].m, c |-> [col \in cols |-> rows[k].c[col]]]]

ProbFrame(cells, cols) ==
    [kind |-> "df", cols |-> cols,
     rows |-> Restrict([k \in 1..Len(cells) |->
                          MkRow(k, Num(40), Num(40), Num(100), Num(3), Num(30),
                                cells[k][2], cells[k][1])], cols)]

\* the state after make_dashboard_df has returned and fred is idle
FetchDone ==
    /\ bpc = "done" /\ pos = NSeries + 1 /\ fetched = <<>> /\ monthly = <<>>
    /\ err = NoErr
    /\ fpc = "idle" /\ attempt = 0 /\ calls = 0 /\ nfail = 0 /\ slept = <<>>
    /\ exc = "" /\ warn = "" /\ ret = <<>> /\ ferr = NoErr

InitProb ==
    /\ FetchDone
    /\ \E cells \in ProbRowSeqs : \E gone \in SUBSET {"DGS10", "DTB3"} :
          df = ProbFrame(cells, Columns \ gone)
    /\ tpc = "idle" /\ trig = NoTrig
    /\ ppc = "ready" /\ prob = NoProb
    /\ zpc = "idle" /\ zin = NoZIn /\ zout = <<>>

NextProb == ProbRaises \/ ProbReturns

SpecProb == InitProb /\ [][NextProb]_vars

(***************************************************************************)
(* Claims about build_nyfed_prob                                           *)
(***************************************************************************)
\* C11: the table build_nyfed_prob returns has exactly the index of the
\* input dataset, row for row (every row, not only those qualifying for the
\* triggers), and its probability at a row is missing exactly when DGS10 or
\* DTB3 is missing at that row.
C11_ProbabilityOverFullIndex ==
    (ppc = "done" /\ prob.kind = "ok") =>
        /\ Len(prob.rows) = Len(df.rows)
        /\ \A k \in 1..Len(df.rows) :
              /\ prob.rows[k].m = df.rows[k].m
              /\ prob.rows[k].p = <<>> <=>
                    (df.rows[k].c["DGS10"] = <<>> \/ df.rows[k].c["DTB3"] = <<>>)

C11_Witness ==
    /\ ppc = "done" /\ prob.kind = "ok" /\ Len(prob.rows) = 2
    /\ prob.rows[1].p = <<>> /\ df.rows[1].c["DGS10"] # <<>>
    /\ prob.rows[2].p # <<>>

\* C12: build_nyfed_prob raises its missing-input error and returns no table
\* whenever the DGS10 or the DTB3 column is absent from the dataset, whatever
\* the other columns hold; when both columns are present it raises nothing
\* and returns a table, even if every value of both is missing.
C12_MissingColumnRaises ==
    ppc = "done" =>
        /\ ({"DGS10", "DTB3"} \subseteq df.cols) <=> prob.kind = "ok"
        /\ ~({"DGS10", "DTB3"} \subseteq df.cols) =>
              /\ prob.kind = "raise"
              /\ prob.error = "DGS10 or DTB3 missing"
              /\ prob.rows = <<>>

C12_Witness ==
    /\ ppc = "done" /\ prob.kind = "raise"
    /\ "DTB3" \in df.cols /\ "DGS10" \notin df.cols
    /\ Len(df.rows) = 2

C12_WitnessAllMissing ==
    /\ ppc = "done" /\ prob.kind = "ok" /\ Len(df.rows) = 2
    /\ \A k \in 1..2 : df.rows[k].c["DGS10"] = <<>> /\ df.rows[k].c["DTB3"] = <<>>

\* the rows of the dataset where DGS10 and DTB3 are both present
SpreadRows ==
    {k \in 1..Len(df.rows) :
        df.rows[k].c["DGS10"] # <<>> /\ df.rows[k].c["DTB3"] # <<>>}

SpreadAt(k) == df.rows[k].c["DGS10"][1] - df.rows[k].c["DTB3"][1]

\* C15: at every row where DGS10 and DTB3 are present the probability is
\* 100 / (1 + exp(-(-0.5333 - 1.6278 * (DGS10 - DTB3)))): a number between 0
\* and 100 that does not increase when the spread increases, and that is
\* within 0.01 of 36.98 at a spread of zero.  (Stated on the enclosure
\* [lo, hi], in 1/100 of a percentage point, that contains the value.)
C15_LogisticOfSpread ==
    (ppc = "done" /\ prob.kind = "ok") =>
        /\ \A k \in SpreadRows :
              /\ prob.rows[k].p # <<>>
              /\ 0 <= prob.rows[k].p[1].lo
              /\ prob.rows[k].p[1].lo <= prob.rows[k].p[1].hi
              /\ prob.rows[k].p[1].hi <= 10000
              /\ SpreadAt(k) = 0 =>
                    /\ 3697 <= prob.rows[k].p[1].lo
                    /\ prob.rows[k].p[1].hi <= 3699
        /\ \A j, k \in SpreadRows :
              SpreadAt(j) < SpreadAt(k) =>
                  prob.rows[j].p[1].lo >= prob.rows[k].p[1].hi

C15_Witness ==
    /\ ppc = "done" /\ prob.kind = "ok" /\ Len(prob.rows) = 2
    /\ SpreadRows = {1, 2}
    /\ SpreadAt(1) = 0 /\ SpreadAt(2) = 15
    /\ prob.rows[1].p[1].lo > prob.rows[2].p[1].hi

(***************************************************************************)
(* evaluate_triggers and build_nyfed_prob called on one dataset, in either *)
(* order (app.py calls both on the frame make_dashboard_df returned)       *)
(***************************************************************************)
MaxShortPad == 13

InitBoth ==
    /\ FetchDone
    /\ \E n \in 0..MaxShortPad : \E tail \in Tails : \E gone \in {{}, {"DGS10"}} :
          df = [kind |-> "df", cols |-> Columns \ gone,
                rows |-> Restrict(Dataset(n, tail), Columns \ gone)]
    /\ tpc = "ready" /\ trig = NoTrig
    /\ ppc = "ready" /\ prob = NoProb
    /\ zpc = "idle" /\ zin = NoZIn /\ zout = <<>>

NextBoth == EvaluateRaises \/ EvaluateReturns \/ ProbRaises \/ ProbReturns

SpecBoth == InitBoth /\ [][NextBoth]_vars

\* C13: too little history is fatal for the triggers only.  No step changes
\* the dataset, and a step of evaluate_triggers (raising or not) leaves the
\* probability call and its result untouched; whenever build_nyfed_prob
\* returns, before or after evaluate_triggers has raised, it gives what the
\* dataset alone determines: with both rate columns present a table with one
\* row per dataset row, the same as if evaluate_triggers had never run.
C13_InsufficientHistoryOnlyStopsTriggers ==
    [][/\ df' = df
       /\ tpc' # tpc => (prob' = prob /\ ppc' = ppc)
       /\ ppc' = "done" =>
             IF {"DGS10", "DTB3"} \subseteq df.cols
             THEN /\ prob'.kind = "ok"
                  /\ Len(prob'.rows) = Len(df.rows)
                  /\ \A k \in 1..Len(df.rows) :
                        /\ prob'.rows[k].m = df.rows[k].m
                        /\ prob'.rows[k].p =
                              (IF df.rows[k].c["DGS10"] = <<>> \/ df.rows[k].c["DTB3"] = <<>>
                               THEN <<>>
                               ELSE <<ProbPercent(df.rows[k].c["DGS10"][1]
                                                    - df.rows[k].c["DTB3"][1])>>)
             ELSE prob'.kind = "raise"]_vars

C13_Witness ==
    /\ tpc = "done" /\ trig.kind = "raise"
    /\ ppc = "done" /\ prob.kind = "ok"
    /\ Len(prob.rows) = Len(df.rows) /\ Len(df.rows) = 14
    /\ Len(DropNaRequired(df.rows)) = 12

(***************************************************************************)
(* preprocess.zscore as a function of a whole series.  A rolling statistic *)
(* at position k is missing unless the window k-w+1..k lies in the series  *)
(* and holds w non-missing values (min_periods defaults to the window).    *)
(* The mean is S / w and the squared sample deviation is                   *)
(* (w Q - S^2) / (w (w - 1)), S and Q the sums of the values and of their  *)
(* squares; a result is missing, infinite, or the pair (num, var) standing *)
(* for (num / w) / sqrt(var / (w (w - 1))).                                *)
(***************************************************************************)
WindowFull(series, w, k) ==
    k >= w /\ \A i \in (k - w + 1)..k : ~IsNaN(series[i])

WindowValues(series, w, k) == [i \in 1..w |-> Val(series[k - w + i])]

\* roll.mean() at k: missing, or <<S>> for S / w
RollMean(series, w, k) ==
    IF WindowFull(series, w, k)
    THEN Num(SeqTotal(WindowValues(series, w, k)))
    ELSE NaN

\* roll.std() at k (ddof = 1): missing, or <<w Q - S^2>>
RollStd(series, w, k) ==
    IF WindowFull(series, w, k) /\ w >= 2
    THEN LET v == WindowValues(series, w, k)
             S == SeqTotal(v)
             Q == SeqTotal([i \in 1..w |-> v[i] * v[i]])
         IN Num(w * Q - S * S)
    ELSE NaN

\* the division with a zero deviation replaced by a zero score
ZDivideZeroFilled(x, mean, std, w) ==
    IF IsNaN(x) \/ IsNaN(mean) \/ IsNaN(std) THEN NaN
    ELSE LET num == w * Val(x) - Val(mean)
         IN IF Val(std) = 0
            THEN Num([inf |-> FALSE, num |-> 0, var |-> 1, w |-> w])
            ELSE Num([inf |-> FALSE, num |-> num, var |-> Val(std), w |-> w])

\* (x - mean) / std, elementwise: a missing operand gives a missing result,
\* 0 / 0 is missing, a non-zero number over zero is infinite
ZDivide(x, mean, std, w) ==
    IF IsNaN(x) \/ IsNaN(mean) \/ IsNaN(std) THEN NaN
    ELSE LET num == w * Val(x) - Val(mean)
         IN IF Val(std) = 0
            THEN IF num = 0 THEN NaN
                 ELSE Num([inf |-> TRUE, num |-> num, var |-> 0, w |-> w])
            ELSE Num([inf |-> FALSE, num |-> num, var |-> Val(std), w |-> w])

ZScore(series, w) ==
    [k \in 1..Len(series) |->
        ZDivide(series[k], RollMean(series, w, k), RollStd(series, w, k), w)]

\* zscore(series, window) returns
ZScoreReturns ==
    /\ zpc = "ready"
    /\ zout' = ZScore(zin.series, zin.window)
    /\ zpc' = "done"
    /\ UNCHANGED <<buildVars, fredVars, df, trigVars, probVars, zin>>

\* arguments of zscore: series of up to MaxSeriesLen cells, windows of 1 to
\* MaxWindow periods
MaxSeriesLen == 4

MaxWindow == 3

ZCells == {NaN, Num(1), Num(2)}

InitZ ==
    /\ FetchDone
    /\ df = NoDF
    /\ tpc = "idle" /\ trig = NoTrig
    /\ ppc = "idle" /\ prob = NoProb
    /\ \E n \in 0..MaxSeriesLen : \E series \in [1..n -> ZCells] :
       \E w \in 1..MaxWindow :
          zin = [series |-> series, window |-> w]
    /\ zpc = "ready" /\ zout = <<>>

NextZ == ZScoreReturns

SpecZ == InitZ /\ [][NextZ]_vars

\* the non-missing observations among the window positions k-w+1..k that
\* lie in the series
Observed(k) ==
    {i \in 1..Len(zin.series) :
        i > k - zin.window /\ i <= k /\ zin.series[i] # <<>>}

\* C14: zscore(series, w) is missing at every position whose window holds
\* fewer than w non-missing observations (there the rolling mean or the
\* rolling deviation is missing) and at every position where the rolling
\* deviation is zero (the w observations of the window are all equal); at
\* such a position the result is neither infinite nor a number such as 0.
\* No position of the result is infinite.
C14_ZScoreMissingNotInfinite ==
    zpc = "done" =>
        /\ Len(zout) = Len(zin.series)
        /\ \A k \in 1..Len(zout) :
              /\ Cardinality(Observed(k)) < zin.window => zout[k] = <<>>
              /\ zin.window = 1 => zout[k] = <<>>
              /\ (/\ Cardinality(Observed(k)) = zin.window
                  /\ \A i, j \in Observed(k) : zin.series[i] = zin.series[j])
                    => zout[k] = <<>>
              /\ zout[k] # <<>> => ~zout[k][1].inf

C14_Witness ==
    /\ zpc = "done" /\ zin.window = 2
    /\ zin.series = <<<<1>>, <<1>>, <<2>>, <<>>>>
    /\ zout[1] = <<>> /\ zout[2] = <<>> /\ zout[3] # <<>> /\ zout[4] = <<>>

(***************************************************************************)
(* Claims about what evaluate_triggers reads                               *)
(***************************************************************************)
\* the rows of the dataset with all five required columns present, in
\* dataset order
QualifyingRows ==
    LET RECURSIVE Upto(_)
        Upto(k) ==
            IF k = 0 THEN <<>>
            ELSE IF \A col \in {"UNRATE", "HY_OAS", "TEMP", "DELINQ", "term_spread"} :
                       df.rows[k].c[col] # <<>>
                 THEN Append(Upto(k - 1), df.rows[k])
                 ELSE Upto(k - 1)
    IN Upto(Len(df.rows))

\* C16: every trigger is computed from the qualifying rows only.  The latest
\* term spread and HY OAS are those of the last qualifying row, Temp Help YoY
\* compares TEMP of that row with TEMP of the qualifying row 12 places before
\* it among the qualifying rows, and all five results are those of the
\* dataset with every non-qualifying row removed: rows with a missing
\* required column change nothing.
C16_OnlyQualifyingRowsCount ==
    (tpc = "done" /\ trig.kind = "ok") =>
        LET q == QualifyingRows
            n == Len(q)
        IN /\ n >= 13
           /\ trig.t["Term Spread"].metric = [n |-> q[n].c["term_spread"][1], d |-> 10]
           /\ trig.t["HY OAS"].metric = [n |-> q[n].c["HY_OAS"][1], d |-> 10]
           /\ trig.t["Temp Help YoY"].metric =
                 [n |-> 100 * (q[n].c["TEMP"][1] - q[n - 12].c["TEMP"][1]),
                  d |-> q[n - 12].c["TEMP"][1]]
           /\ trig.t = Triggers(q)

C16_Witness ==
    /\ tpc = "done" /\ trig.kind = "ok"
    /\ QualifyingCount = 14 /\ Len(df.rows) = 15
    /\ df.rows[15].c["UNRATE"] = <<>> /\ df.rows[15].c["HY_OAS"] = <<61>>
    /\ df.rows[14].c["HY_OAS"] = <<60>>
    /\ trig.t["HY OAS"].metric.n = 60

\* C17: when evaluate_triggers runs on 13 to 59 qualifying rows it raises
\* nothing, the 60-period delinquency z-score of the latest row is missing
\* and Card Delinquency is Normal, whatever the delinquency values are.
C17_ShortHistoryDelinqNormal ==
    (tpc = "done" /\ QualifyingCount >= 13 /\ QualifyingCount < 60) =>
        /\ trig.kind = "ok"
        /\ trig.t["Card Delinq (z)"].metric.nan
        /\ trig.t["Card Delinq (z)"].state = "Normal"

C17_Witness ==
    /\ tpc = "done" /\ trig.kind = "ok"
    /\ QualifyingCount = 59 /\ Len(df.rows) = 60
    /\ df.rows[59].c["DELINQ"] = <<5>> /\ df.rows[60].c["UNRATE"] = <<>>
    /\ trig.t["Card Delinq (z)"].metric.nan
    /\ trig.t["Card Delinq (z)"].state = "Normal"

\* C18: whenever evaluate_triggers succeeds the Sahm gap (mean of the last 3
\* qualifying unemployment rates minus the minimum of the last 12) is not
\* negative, so the Unemployment trigger is Normal exactly when
\* 0 <= gap < 0.2.
C18_SahmGapNotNegative ==
    (tpc = "done" /\ trig.kind = "ok") =>
        LET gap == trig.t["Unemployment (Sahm)"].metric
        IN /\ gap.d > 0
           /\ gap.n >= 0
           /\ trig.t["Unemployment (Sahm)"].state = "Normal" <=>
                 (0 <= gap.n /\ 5 * gap.n < gap.d)

C18_Witness ==
    /\ tpc = "done" /\ trig.kind = "ok"
    /\ trig.t["Unemployment (Sahm)"].metric.n > 0
    /\ trig.t["Unemployment (Sahm)"].state = "Normal"

====
